---------------------------- MODULE Spec2Model ----------------------------
(***************************************************************************)
(* Lead Intelligence Pipeline (Acoste616/compare).                         *)
(*                                                                         *)
(* The Python backend (backend/services/gotham, asset_sniper) is not       *)
(* part of the source tree; what the tree holds of it are its integration  *)
(* reports, README and audit documents.  Each definition below is          *)
(* translated from the passage that documents the behaviour, and from the  *)
(* design specification only where no passage of the tree describes it.    *)
(*                                                                         *)
(* Specifications                                                          *)
(*   SpecCache  the Cache Store, the gateways and the fallback chain,      *)
(*              one lookup at a time, with a clock                         *)
(*   SpecRace   two workers writing the JSON cache file concurrently       *)
(*   SpecScore  the Scoring Matrix applied to one record                   *)
(*   SpecBatch  the Batch Orchestrator over one input file                 *)
(*   SpecCancel the Batch Orchestrator with a cancellation request          *)
(*   SpecCancelLive  the same, the orchestrator never stalling              *)
(*   SpecDeep   the deep enrichment of the tier S/A leads, in batches       *)
(*   SpecRetry  one gateway fetch: attempts, retries and backoff            *)
(*   SpecIntegrity  the plausibility check on the regional registry counts  *)
(*   SpecChat   the sales cockpit: the store (store.ts), the Chat view      *)
(*              and the WebSocket hook (hooks/useWebSocket.ts)              *)
(*   SpecPages  the paginated registry query, brand by brand, the           *)
(*              connector never stalling                                    *)
(*   SpecChatLive  the same, the hook running and the backend answering      *)
(*   SpecSession  the cockpit's sessions: selecting, staging, closing         *)
(*   SpecSocket the WebSocket hook: its sockets, close events and timers     *)
(*   SpecStage  store.updateAnalysis applied to one store and one update     *)
(*   SpecNip    the Lead Refinery validating identifiers (NIP)              *)
(*   SpecPhone  the Lead Refinery normalizing phone numbers                 *)
(***************************************************************************)
EXTENDS Integers, Sequences, FiniteSets, TLC

VARIABLES
    cache,      \* SpecCache: key -> cache entry (the JSON cache files)
    now,        \* SpecCache: the clock, in days
    last,       \* SpecCache: what the last operation on the store did
    file,       \* SpecRace: the content of dane/cepik_cache.json
    wpc,        \* SpecRace: worker -> position inside set()
    wjob,       \* SpecRace: worker -> the (key, payload) it is writing
    wbuf,       \* SpecRace: worker -> the dictionary it loaded / its temp file
    acked,      \* SpecRace: the set() calls that have returned
    nsets,      \* SpecRace: number of set() calls started
    scored,     \* SpecScore: the ScoreBreakdown of the record just scored
    input,      \* SpecBatch: the rows of the input CSV
    cfg,        \* SpecBatch: the run's options
    source,     \* SpecBatch: how the charger API answers during the run
    pos,        \* SpecBatch: index of the next row to read
    out,        \* SpecBatch: the rows written to the output CSV so far
    stats,      \* SpecBatch: the run's aggregate statistics
    bpc,        \* SpecBatch: the orchestrator's position
    inflight,   \* SpecBatch: a chunk has been read and is being processed
    bcancel,    \* SpecCancel: cancellation of the run has been requested
    dn,         \* SpecDeep: number of tier S/A leads to enrich
    dtask,      \* SpecDeep: lead -> state of its enrichment task
    dbatch,     \* SpecDeep: the leads of the batch being gathered
    dpc,        \* SpecDeep: the position of the batching loop
    rgw,        \* SpecRetry: the gateway of the fetch
    rpc,        \* SpecRetry: the position inside the fetch
    rlog,       \* SpecRetry: the outcomes of the attempts made, in order
    rwaits,     \* SpecRetry: the backoff delays slept, in order
    rres,       \* SpecRetry: what the fetch returned
    rcalls,     \* SpecRetry: number of fetches started
    pbrand,     \* SpecPages: the brand being queried
    psrc,       \* SpecPages: how many results the source holds for it
    ppage,      \* SpecPages: pages requested so far (counted up to MaxPages)
    ppar,       \* SpecPages: parity of the number of pages requested
    pacc,       \* SpecPages: results accumulated so far
    pcounts,    \* SpecPages: brand -> count returned
    ppc,        \* SpecPages: the position of the pagination loop
    idata,      \* SpecIntegrity: region -> outcome of get_regional_data
    sessions,           \* SpecChat: store.sessions
    currentSessionId,   \* SpecChat: store.currentSessionId
    currentAnalysis,    \* SpecChat: store.currentAnalysis
    isSending,          \* SpecChat: Chat's isSending state
    wsSession,          \* SpecChat: the sessionId the hook's effect last ran with
    wsState,            \* SpecChat: the state of wsRef.current
    flast,              \* SpecChat: what the last handler was and saw
    currentView,        \* SpecChat: store.currentView
    isLearning,         \* SpecSession: Chat's isLearning state
    timers,             \* SpecSession: the pending close timers of handleOutcomeSelection
    hsid,               \* SpecSocket: the sessionId of the hook's last effect
    socks,              \* SpecSocket: the WebSockets created, by number
    nsock,              \* SpecSocket: how many were created
    wsRef,              \* SpecSocket: wsRef.current (0: null)
    timerRef,           \* SpecSocket: reconnectTimeoutRef.current (0: null)
    tpend,              \* SpecSocket: the reconnect timers pending
    hlast,              \* SpecSocket: what the last step of the hook was
    ures,               \* SpecStage: one application of store.updateAnalysis
    nres,       \* SpecNip: the identifier just validated and the verdict
    pres        \* SpecPhone: the phone just normalized and the results

varsCache == <<cache, now, last>>
varsRace == <<file, wpc, wjob, wbuf, acked, nsets>>
varsScore == <<scored>>
varsBatch == <<input, cfg, source, pos, out, stats, bpc, inflight, bcancel>>
varsDeep == <<dn, dtask, dbatch, dpc>>
varsRetry == <<rgw, rpc, rlog, rwaits, rres, rcalls>>
varsPages == <<pbrand, psrc, ppage, ppar, pacc, pcounts, ppc>>
varsIntegrity == <<idata>>
varsChat == <<sessions, currentSessionId, currentAnalysis, isSending,
              wsSession, wsState, flast>>
varsClose == <<currentView, isLearning, timers>>
varsStage == <<ures>>
varsSocket == <<hsid, socks, nsock, wsRef, timerRef, tpend, hlast>>
varsRefinery == <<nres, pres>>
vars == <<cache, now, last, file, wpc, wjob, wbuf, acked, nsets, scored,
          input, cfg, source, pos, out, stats, bpc, inflight, bcancel,
          dn, dtask, dbatch, dpc, rgw, rpc, rlog, rwaits, rres, rcalls,
          pbrand, psrc, ppage, ppar, pacc, pcounts, ppc, idata,
          sessions, currentSessionId, currentAnalysis, isSending,
          wsSession, wsState, flast, currentView, isLearning, timers,
          hsid, socks, nsock, wsRef, timerRef, tpend, hlast, ures, nres, pres>>

(***************************************************************************)
(* Bounds of the model.                                                    *)
(***************************************************************************)
MaxDays == 8
MaxSets == 3
MaxRows == 3
MaxLeads == 6
MaxFetches == 4
MaxPages == 4
MaxMsgs == 2
MaxTimers == 2
MaxSockets == 4

(***************************************************************************)
(* Cache Store and gateways.                                               *)
(***************************************************************************)
\* One cache key per data category: the CEPiK leasing-expiry counts, the
\* CEPiK regional data and the charger locations.  (Fuel prices follow the
\* charger chain, stale cache then a bundled default, with the CEPiK TTL.)
Keys == {"cepik_leasing", "cepik_regional", "charger"}

\* Type-specific TTL, in hours.
CEPIK_TTL_HOURS == 24
CHARGER_TTL_HOURS == 168

TTLHours(k) == IF k = "charger" THEN CHARGER_TTL_HOURS ELSE CEPIK_TTL_HOURS

\* What a source can answer to one fetch (after the gateway's retries).
Outcomes == {"ok", "timeout", "network", "invalid"}

\* Payloads.  "data" stands for data the source really returned,
\* "zero_filled" for a payload of 0 counts, "static" for the bundled
\* default (CHARGER_LOCATIONS, safe defaults), "null" for None.
SourceData == {"data"}

NoEntry == [present |-> FALSE, payload |-> "null", fetchedAt |-> 0]

Entry(p, t) == [present |-> TRUE, payload |-> p, fetchedAt |-> t]

\* Freshness: an entry is fresh while its age is below its category's TTL.
IsFresh(e, k, t) == e.present /\ (t - e.fetchedAt) * 24 < TTLHours(k)

IsStale(e, k, t) == e.present /\ ~IsFresh(e, k, t)

\* The gateway's answer to the caller for source outcome o carrying data d.
\* A timeout or a network error (after the retries) is a failure.  The
\* CEPiK leasing connector answers an invalid response by logging the
\* error and returning 0 counts, as an ordinary return value.
Fetch(k, o, d) ==
    CASE o = "ok" -> [ok |-> TRUE, payload |-> d, error |-> "none"]
      [] o = "invalid" /\ k = "cepik_leasing" ->
             [ok |-> TRUE, payload |-> "zero_filled", error |-> "none"]
      [] OTHER -> [ok |-> FALSE, payload |-> "null", error |-> o]

\* The last link of the fallback chain, when the fetch failed and the
\* store holds nothing for the key.  CEPiK regional data has no fallback:
\* the connector returns None.
Fallback(k) ==
    IF k = "cepik_regional"
    THEN [value |-> "null", conf |-> "none"]
    ELSE [value |-> "static", conf |-> "staticFallback"]

\* get_or_fetch: the value and confidence the caller gets for key k at
\* time t, given the store's entry e and the fetch result r (consulted
\* only when the entry is not fresh or a refresh is forced).
Serve(k, e, t, force, r) ==
    IF IsFresh(e, k, t) /\ ~force
    THEN [value |-> e.payload, conf |-> "cachedFresh"]
    ELSE IF r.ok
    THEN [value |-> r.payload, conf |-> "live"]
    ELSE IF e.present
    THEN [value |-> e.payload,
          conf |-> IF IsFresh(e, k, t) THEN "cachedFresh" ELSE "cachedStale"]
    ELSE Fallback(k)

\* The entry under key k after that lookup: written on a successful
\* fetch, otherwise left as it is (a stale entry is retained).
EvictStaleEntry(k, e, t, force, r) ==
    IF IsFresh(e, k, t) /\ ~force THEN e
    ELSE IF r.ok THEN Entry(r.payload, t)
    ELSE NoEntry

EntryAfterLookup(k, e, t, force, r) ==
    IF IsFresh(e, k, t) /\ ~force THEN e
    ELSE IF r.ok THEN Entry(r.payload, t)
    ELSE e

NoOp ==
    [op |-> "init", key |-> "charger", fetched |-> FALSE, outcome |-> "ok",
     data |-> "data", hadEntry |-> FALSE, wasFresh |-> FALSE,
     oldPayload |-> "null", resOk |-> FALSE, resPayload |-> "null",
     resError |-> "none", value |-> "null", conf |-> "none"]

EmptyCache == [k \in Keys |-> NoEntry]

\* One enrichment lookup through the store (get_or_fetch).
Lookup(k, force, o, d) ==
    LET e == cache[k]
        fetched == ~IsFresh(e, k, now) \/ force
        r == Fetch(k, o, d)
        s == Serve(k, e, now, force, r)
    IN  /\ cache' = [cache EXCEPT ![k] = EntryAfterLookup(k, e, now, force, r)]
        /\ last' = [op |-> "lookup", key |-> k, fetched |-> fetched,
                    outcome |-> IF fetched THEN o ELSE "ok",
                    data |-> IF fetched THEN d ELSE "data",
                    hadEntry |-> e.present,
                    wasFresh |-> IsFresh(e, k, now),
                    oldPayload |-> e.payload,
                    resOk |-> fetched /\ r.ok,
                    resPayload |-> IF fetched THEN r.payload ELSE "null",
                    resError |-> IF fetched THEN r.error ELSE "none",
                    value |-> s.value, conf |-> s.conf]
        /\ UNCHANGED now

\* Explicit invalidation (clear_cache).
Invalidate(k) ==
    /\ cache[k].present
    /\ cache' = [cache EXCEPT ![k] = NoEntry]
    /\ last' = [NoOp EXCEPT !.op = "invalidate", !.key = k]
    /\ UNCHANGED now

\* A day passes: entries age, none is removed.
Tick ==
    /\ now < MaxDays
    /\ now' = now + 1
    /\ last' = [NoOp EXCEPT !.op = "tick"]
    /\ UNCHANGED cache

(***************************************************************************)
(* Concurrent writers of the JSON cache file.  The store keeps all keys   *)
(* of a cache in one JSON file; set() loads the dictionary, puts the key, *)
(* writes the dictionary to a temporary file and renames it over the      *)
(* cache file.  The rename is atomic; nothing serialises two set() calls. *)
(***************************************************************************)
Workers == {"w1", "w2"}
FileKeys == {"k1", "k2"}
RacePayloads == {"p1", "p2"}
Absent == "absent"

EmptyFile == [k \in FileKeys |-> Absent]

IdleJob == [key |-> "k1", payload |-> "p1"]

\* A worker calls set(k, p).
StartSet(w, k, p) ==
    /\ wpc[w] = "idle"
    /\ nsets < MaxSets
    /\ wjob' = [wjob EXCEPT ![w] = [key |-> k, payload |-> p]]
    /\ wpc' = [wpc EXCEPT ![w] = "load"]
    /\ nsets' = nsets + 1
    /\ UNCHANGED <<file, wbuf, acked>>

\* set(): load the cache file into a dictionary.
LoadFile(w) ==
    /\ wpc[w] = "load"
    /\ wbuf' = [wbuf EXCEPT ![w] = file]
    /\ wpc' = [wpc EXCEPT ![w] = "write"]
    /\ UNCHANGED <<file, wjob, acked, nsets>>

\* set(): put the key and write the whole dictionary to a temporary file.
WriteTemp(w) ==
    /\ wpc[w] = "write"
    /\ wbuf' = [wbuf EXCEPT ![w] = [@ EXCEPT ![wjob[w].key] = wjob[w].payload]]
    /\ wpc' = [wpc EXCEPT ![w] = "rename"]
    /\ UNCHANGED <<file, wjob, acked, nsets>>

\* set(): rename the temporary file over the cache file, and return.
Rename(w) ==
    /\ wpc[w] = "rename"
    /\ file' = wbuf[w]
    /\ acked' = acked \cup {wjob[w]}
    /\ wpc' = [wpc EXCEPT ![w] = "idle"]
    /\ UNCHANGED <<wjob, wbuf, nsets>>

\* get(): read the cache file (always one complete dictionary).
GetFile(w) ==
    /\ wpc[w] = "idle"
    /\ wbuf[w] # file
    /\ wbuf' = [wbuf EXCEPT ![w] = file]
    /\ UNCHANGED <<file, wpc, wjob, acked, nsets>>

(***************************************************************************)
(* Scoring Matrix: five pre-weighted sub-scores, their sum clamped to      *)
(* [0,100], and the tier bands.                                            *)
(***************************************************************************)
PKD_MAX == 30
WEALTH_MAX == 25
AGE_MAX == 20
CHARGER_MAX == 15
CONTACT_MAX == 10

PkdTiers == {"S", "A", "B", "DEFAULT"}
WealthTiers == {"PREMIUM", "HIGH", "MEDIUM", "STANDARD", "LOW"}
AgeBands == {"0-2", "2-3", "3-6", "6-7", "7+", "unknown"}
ChargerBands == {"<5km", "<10km", "<20km", "far", "unknown"}

\* The bands whose points the scoring table does not list score below the
\* lowest listed band; u is that value.
RestPoints(lowest) == {0, lowest - 1}

PkdPoints(t) ==
    CASE t = "S" -> PKD_MAX
      [] t = "A" -> 22
      [] t = "B" -> 15
      [] OTHER -> 8

WealthPoints(w, u) ==
    CASE w = "PREMIUM" -> WEALTH_MAX
      [] w = "HIGH" -> 20
      [] w = "MEDIUM" -> 15
      [] OTHER -> u

AgePoints(a, u) ==
    CASE a = "3-6" -> AGE_MAX
      [] a = "7+" -> 18
      [] a = "2-3" -> 15
      [] OTHER -> u

ChargerPoints(c, u) ==
    CASE c = "<5km" -> CHARGER_MAX
      [] c = "<10km" -> 12
      [] c = "<20km" -> 9
      [] OTHER -> u

ContactPoints(phone, email, www) ==
    (IF phone THEN 5 ELSE 0) + (IF email THEN 3 ELSE 0) + (IF www THEN 2 ELSE 0)

Clamp(x, lo, hi) == IF x < lo THEN lo ELSE IF x > hi THEN hi ELSE x

\* The tier thresholds.
TierBandsWithGap ==
    {[tier |-> "S", lo |-> 85, hi |-> 100],
     [tier |-> "AAA", lo |-> 76, hi |-> 84],
     [tier |-> "AA", lo |-> 65, hi |-> 74],
     [tier |-> "A", lo |-> 50, hi |-> 64],
     [tier |-> "B", lo |-> 35, hi |-> 49],
     [tier |-> "C-E", lo |-> 0, hi |-> 34]}

TierBands ==
    {[tier |-> "S", lo |-> 85, hi |-> 100],
     [tier |-> "AAA", lo |-> 75, hi |-> 84],
     [tier |-> "AA", lo |-> 65, hi |-> 74],
     [tier |-> "A", lo |-> 50, hi |-> 64],
     [tier |-> "B", lo |-> 35, hi |-> 49],
     [tier |-> "C-E", lo |-> 0, hi |-> 34]}

BandsOf(v) == {b \in TierBands : b.lo <= v /\ v <= b.hi}

TierOf(v) ==
    IF BandsOf(v) = {} THEN "null" ELSE (CHOOSE b \in BandsOf(v) : TRUE).tier

Breakdown(pkd, wealth, age, charger, contact) ==
    LET total == Clamp(pkd + wealth + age + charger + contact, 0, 100)
    IN  [done |-> TRUE, pkd |-> pkd, wealth |-> wealth, age |-> age,
         charger |-> charger, contact |-> contact,
         total |-> total, tier |-> TierOf(total)]

NotScored ==
    [done |-> FALSE, pkd |-> 0, wealth |-> 0, age |-> 0, charger |-> 0,
     contact |-> 0, total |-> 0, tier |-> "null"]

\* score(): one record is scored from its enriched attributes.
Score(t, w, uw, a, ua, c, uc, phone, email, www) ==
    /\ ~scored.done
    /\ scored' = Breakdown(PkdPoints(t), WealthPoints(w, uw), AgePoints(a, ua),
                           ChargerPoints(c, uc),
                           ContactPoints(phone, email, www))

(***************************************************************************)
(* Batch Orchestrator: the input is split into chunks of chunk_size rows;  *)
(* each chunk is refined, enriched and scored by a pipeline of its own,    *)
(* and its rows and statistics are added to the run's.                     *)
(***************************************************************************)
\* A raw row, as far as the refinery's required-field policy and the
\* contact sub-score see it: does it hold a valid phone, a valid email.
Rows == [phone : BOOLEAN, email : BOOLEAN]

Inputs == UNION {[1..n -> Rows] : n \in 0..MaxRows}

\* How the charger API answers during one run: always, never, or
\* sometimes.
Sources == {"up", "down", "flaky"}

Reasons == {"missing phone", "missing email"}
TierNames == {b.tier : b \in TierBands}

Configs ==
    [require_phone : BOOLEAN, require_email : BOOLEAN, all_tiers : BOOLEAN,
     chunk_size : 1..MaxRows, valid : BOOLEAN]

\* The CLI defaults: phone required, email not, only tiers S-A exported.
DefaultCfg ==
    [require_phone |-> TRUE, require_email |-> FALSE, all_tiers |-> FALSE,
     chunk_size |-> 1, valid |-> TRUE]

NoStats ==
    [rows_in |-> 0, chunks |-> 0, kept |-> 0, degraded |-> 0,
     rejected |-> [r \in Reasons |-> 0], tiers |-> [t \in TierNames |-> 0]]

\* Lead validation: a row without a valid phone is filtered when the phone
\* is required (the default), likewise the email with --require-email.
AcceptEveryRow(row, c) == "none"

RejectReason(row, c) ==
    IF c.require_phone /\ ~row.phone THEN "missing phone"
    ELSE IF c.require_email /\ ~row.email THEN "missing email"
    ELSE "none"

\* The charger layer inside one chunk.  The engine caches the chargers it
\* fetched in memory; k is the number of fetches that fail before one
\* succeeds.  The j-th kept row of the chunk gets the bundled static
\* locations while the API fails, the live answer on the first success and
\* the engine's cached answer from then on.
ConfAt(j, k) ==
    IF j <= k THEN "staticFallback"
    ELSE IF j = k + 1 THEN "live"
    ELSE "cachedFresh"

\* The rows of one run share industry, city and age band; the nearest fast
\* charger of the live directory is nearer than that of the bundled one.
ScoreRow(row, conf) ==
    Breakdown(PkdPoints("DEFAULT"), WealthPoints("MEDIUM", 0),
              AgePoints("2-3", 0),
              ChargerPoints(IF conf = "staticFallback" THEN "<20km" ELSE "<5km", 0),
              ContactPoints(row.phone, row.email, FALSE))

EmptyAcc ==
    [rows |-> <<>>, kept |-> 0, degraded |-> 0,
     rejected |-> [r \in Reasons |-> 0], tiers |-> [t \in TierNames |-> 0]]

\* Refine, enrich and score rows i..hi of inp, in order.
RECURSIVE ProcessRows(_, _, _, _, _, _)
ProcessRows(inp, i, hi, c, k, acc) ==
    IF i > hi THEN acc
    ELSE LET why == RejectReason(inp[i], c)
             j == acc.kept + 1
             conf == ConfAt(j, k)
             b == ScoreRow(inp[i], conf)
             r == [id |-> i, total |-> b.total, tier |-> b.tier, conf |-> conf]
         IN  IF why # "none"
             THEN ProcessRows(inp, i + 1, hi, c, k,
                              [acc EXCEPT !.rejected[why] = @ + 1])
             ELSE ProcessRows(inp, i + 1, hi, c, k,
                              [acc EXCEPT !.kept = j,
                                          !.rows = Append(@, r),
                                          !.tiers[b.tier] = @ + 1,
                                          !.degraded = @ + (IF conf = "staticFallback"
                                                            THEN 1 ELSE 0)])

\* Export: all tiers with --all-tiers, otherwise tiers S to A only.
Exported(r, c) == c.all_tiers \/ r.tier \in {"S", "AAA", "AA", "A"}

Export(rows, c) == SelectSeq(rows, LAMBDA r : Exported(r, c))

Min(a, b) == IF a < b THEN a ELSE b

\* The last row of the chunk that starts at row p.
ChunkEnd(p, size, len) == Min(p + size - 1, len)

\* The run's statistics after a chunk with results acc of n rows.
KeepLastChunkOnly(st, acc, n) ==
    [rows_in |-> st.rows_in + n,
     chunks |-> st.chunks + 1,
     kept |-> st.kept + acc.kept,
     degraded |-> st.degraded + acc.degraded,
     rejected |-> [r \in Reasons |-> st.rejected[r] + acc.rejected[r]],
     tiers |-> acc.tiers]

Accumulate(st, acc, n) ==
    [rows_in |-> st.rows_in + n,
     chunks |-> st.chunks + 1,
     kept |-> st.kept + acc.kept,
     degraded |-> st.degraded + acc.degraded,
     rejected |-> [r \in Reasons |-> st.rejected[r] + acc.rejected[r]],
     tiers |-> [t \in TierNames |-> st.tiers[t] + acc.tiers[t]]]

\* Where the orchestrator goes after a chunk: on to the next one, whatever
\* failed inside the chunk.
AbortOnFetchFailure(acc) == IF acc.degraded > 0 THEN "aborted" ELSE "running"

AfterChunk(acc) == "running"

\* The run starts: the options are validated, and only a valid
\* configuration lets the pipeline begin.
StartRun(rows, c, src) ==
    /\ bpc = "idle"
    /\ cfg' = c
    /\ IF c.valid
       THEN /\ input' = rows
            /\ source' = src
            /\ bpc' = "running"
       ELSE /\ bpc' = "config_error"
            /\ UNCHANGED <<input, source>>
    /\ UNCHANGED <<pos, out, stats, inflight, bcancel>>

\* Cancellation is cooperative: the loop looks at the request before it
\* reads the next chunk, nowhere else.
IgnoreCancel == TRUE

MayStartChunk == ~bcancel

\* The next chunk is read from the input.
BeginChunk ==
    /\ bpc = "running"
    /\ ~inflight
    /\ pos <= Len(input)
    /\ MayStartChunk
    /\ inflight' = TRUE
    /\ UNCHANGED <<input, cfg, source, pos, out, stats, bpc, bcancel>>

\* The chunk in flight is processed: rows pos..ChunkEnd, with k failing
\* charger fetches; its results are written out.
ProcessChunk(k) ==
    /\ bpc = "running"
    /\ inflight
    /\ pos <= Len(input)
    /\ LET hi == ChunkEnd(pos, cfg.chunk_size, Len(input))
           n == hi - pos + 1
           acc == ProcessRows(input, pos, hi, cfg, k, EmptyAcc)
       IN  /\ k \in 0..n
           /\ source = "up" => k = 0
           /\ source = "down" => k = n
           /\ out' = out \o Export(acc.rows, cfg)
           /\ stats' = Accumulate(stats, acc, n)
           /\ pos' = hi + 1
           /\ bpc' = AfterChunk(acc)
    /\ inflight' = FALSE
    /\ UNCHANGED <<input, cfg, source, bcancel>>

\* No rows are left: the run ends.
FinishRun ==
    /\ bpc = "running"
    /\ ~inflight
    /\ pos > Len(input)
    /\ bpc' = "done"
    /\ UNCHANGED <<input, cfg, source, pos, out, stats, inflight, bcancel>>

\* The operator asks for the run to be cancelled.
RequestCancel ==
    /\ bpc = "running"
    /\ ~bcancel
    /\ bcancel' = TRUE
    /\ UNCHANGED <<input, cfg, source, pos, out, stats, bpc, inflight>>

\* At a chunk boundary with the request pending and rows left: the rest of
\* the input is discarded and the run ends.
StopCancelled ==
    /\ bpc = "running"
    /\ ~inflight
    /\ bcancel
    /\ pos <= Len(input)
    /\ bpc' = "cancelled"
    /\ UNCHANGED <<input, cfg, source, pos, out, stats, inflight, bcancel>>

(***************************************************************************)
(* Deep enrichment.  The tier S/A leads are enriched in batches of 3: the  *)
(* tasks of one batch run concurrently and are gathered, then the loop     *)
(* sleeps 0.5 s before the next batch.  A task makes its external call and *)
(* ends with the live answer, or with the estimate of the fallback         *)
(* tactics when the call fails.                                            *)
(***************************************************************************)
BATCH_SIZE == 3

Leads == 1..MaxLeads

TaskStates == {"absent", "queued", "scheduled", "calling", "live", "fallback"}

\* The leads of the batch that starts at lead first, of n leads.
WholeQueue(first, n) == first..n

BatchOf(first, n) == first..Min(first + BATCH_SIZE - 1, n)

Finished(l) == dtask[l] \in {"live", "fallback"}

\* The first lead no batch has taken yet.
NextLead == Cardinality({l \in Leads : dtask[l] \notin {"absent", "queued"}}) + 1

Launch(first) ==
    LET b == BatchOf(first, dn')
    IN  /\ dbatch' = b
        /\ dtask' = [l \in Leads |-> IF l \in b THEN "scheduled"
                                    ELSE IF l <= dn' /\ l >= first THEN "queued"
                                    ELSE IF l > dn' THEN "absent"
                                    ELSE dtask[l]]

\* The loop starts over the n leads of tiers S/A; with none it is over at
\* once, otherwise the first batch is launched.
StartDeep(n) ==
    /\ dpc = "idle"
    /\ dn' = n
    /\ IF n = 0
       THEN /\ dpc' = "done"
            /\ UNCHANGED <<dtask, dbatch>>
       ELSE /\ dpc' = "gather"
            /\ Launch(1)

\* A task of the batch being gathered issues its external call.
BeginCall(l) ==
    /\ dpc = "gather"
    /\ dtask[l] = "scheduled"
    /\ dtask' = [dtask EXCEPT ![l] = "calling"]
    /\ UNCHANGED <<dn, dbatch, dpc>>

\* The call returns, or fails and the fallback tactics fill the fields.
EndCall(l, ok) ==
    /\ dpc = "gather"
    /\ dtask[l] = "calling"
    /\ dtask' = [dtask EXCEPT ![l] = IF ok THEN "live" ELSE "fallback"]
    /\ UNCHANGED <<dn, dbatch, dpc>>

\* Every task of the batch has ended: the loop sleeps if leads remain.
Gathered ==
    /\ dpc = "gather"
    /\ \A l \in dbatch : Finished(l)
    /\ dbatch' = {}
    /\ dpc' = IF NextLead <= dn THEN "sleep" ELSE "done"
    /\ UNCHANGED <<dn, dtask>>

\* The sleep is over: the next batch is launched.
Wake ==
    /\ dpc = "sleep"
    /\ dpc' = "gather"
    /\ UNCHANGED dn
    /\ Launch(NextLead)

(***************************************************************************)
(* One gateway fetch.  The CEPiK connector retries 3 times with            *)
(* exponential backoff after a network error; the other gateways do not    *)
(* retry.  A timeout goes to the stale cache, an invalid response is       *)
(* logged: neither is tried again.                                         *)
(***************************************************************************)
MAX_RETRIES == 3

Gateways == {"cepik", "fuel", "charger"}

RetriesOf(g) == IF g = "cepik" THEN MAX_RETRIES ELSE 0

RetryEveryError(o) == o # "ok"

ShouldRetry(o) == o = "network"

RECURSIVE Pow2(_)
Pow2(n) == IF n = 0 THEN 1 ELSE 2 * Pow2(n - 1)

\* The delay before retry number n (1, 2, 3): 1, 2, 4 units.
Backoff(n) == Pow2(n - 1)

StartFetch(g) ==
    /\ rpc \in {"idle", "done"}
    /\ rcalls < MaxFetches
    /\ rcalls' = rcalls + 1
    /\ rgw' = g
    /\ rpc' = "attempt"
    /\ rlog' = <<>>
    /\ rwaits' = <<>>
    /\ rres' = "none"

\* One request to the source, answered with o.
Attempt(o) ==
    /\ rpc = "attempt"
    /\ rlog' = Append(rlog, o)
    /\ IF o = "ok"
       THEN /\ rpc' = "done"
            /\ rres' = "ok"
       ELSE IF ShouldRetry(o) /\ Len(rwaits) < RetriesOf(rgw)
       THEN /\ rpc' = "backoff"
            /\ rres' = rres
       ELSE /\ rpc' = "done"
            /\ rres' = "failed"
    /\ UNCHANGED <<rgw, rwaits, rcalls>>

\* The backoff before the next attempt.
Sleep ==
    /\ rpc = "backoff"
    /\ rwaits' = Append(rwaits, Backoff(Len(rwaits) + 1))
    /\ rpc' = "attempt"
    /\ UNCHANGED <<rgw, rlog, rres, rcalls>>

(***************************************************************************)
(* The paginated query of get_leasing_expiry_counts.  For each target      *)
(* brand the connector asks page after page of at most 500 results and     *)
(* adds them up until a page comes back short.  The connector "handles     *)
(* unlimited results": no limit on the number of pages is documented.      *)
(* The model counts pages and results exactly up to MaxPages pages and     *)
(* keeps the parity of the page number beyond.                             *)
(***************************************************************************)
PAGE_LIMIT == 500

Brands == {"TESLA", "BMW", "MERCEDES-BENZ", "AUDI", "VOLVO"}

\* What the source holds for one brand; "endless" is a source that answers
\* every page request with a full page.
SourceTotals ==
    {[endless |-> FALSE, total |-> n] : n \in {0, 499, 500, 1245}}
        \cup {[endless |-> TRUE, total |-> 0]}

NotFetched == [fetched |-> FALSE, count |-> 0]

\* The page the source returns for request number n (1, 2, ...).
PageSize(src, n) ==
    IF src.endless THEN PAGE_LIMIT
    ELSE IF src.total <= (n - 1) * PAGE_LIMIT THEN 0
    ELSE Min(PAGE_LIMIT, src.total - (n - 1) * PAGE_LIMIT)

\* Whether the loop asks for another page after one of got results.
MorePages(got) == got = PAGE_LIMIT

StartPaged(b, src) ==
    /\ ppc \in {"idle", "done"}
    /\ pcounts[b] = NotFetched
    /\ pbrand' = b
    /\ psrc' = src
    /\ ppage' = 0
    /\ ppar' = 0
    /\ pacc' = 0
    /\ ppc' = "paging"
    /\ UNCHANGED pcounts

\* One page request and its accumulation.
RequestPage ==
    /\ ppc = "paging"
    /\ LET n == ppage + 1
           got == PageSize(psrc, n)
       IN  /\ ppage' = Min(n, MaxPages)
           /\ ppar' = 1 - ppar
           /\ pacc' = Min(pacc + got, MaxPages * PAGE_LIMIT)
           /\ IF MorePages(got)
              THEN /\ ppc' = "paging"
                   /\ UNCHANGED pcounts
              ELSE /\ ppc' = "done"
                   /\ pcounts' = [pcounts EXCEPT
                                   ![pbrand] = [fetched |-> TRUE, count |-> pacc + got]]
    /\ UNCHANGED <<pbrand, psrc>>

(***************************************************************************)
(* The plausibility check of get_regional_data (gotham_module.py:432) on   *)
(* the number of EV registrations the registry returned.  The code checks  *)
(* the lower bound only, and not when the caller forces the override.      *)
(***************************************************************************)
MAX_REASONABLE_REGISTRATIONS == 10000

Regions == {"SLASKIE", "MAZOWIECKIE", "MALOPOLSKIE"}

\* Counts a registry answer may carry: zero, plausible ones, the largest
\* plausible one, and implausibly large ones.
RegistryCounts == {0, 1, 5000, 10000, 10001, 999999}

NoRegionalData == [status |-> "none", value |-> 0, raw |-> 0, forced |-> FALSE]

\* if total_ev_registrations == 0 and not force_override:
\*     raise DataIntegrityError()
CheckIntegrity(n, force_override) ==
    IF n = 0 /\ ~force_override
    THEN [status |-> "DataIntegrityError", value |-> 0, raw |-> n,
          forced |-> force_override]
    ELSE [status |-> "ok", value |-> n, raw |-> n, forced |-> force_override]

\* The registry answered with n registrations for region r.
GetRegionalData(r, n, force_override) ==
    idata' = [idata EXCEPT ![r] = CheckIntegrity(n, force_override)]

(***************************************************************************)
(* The sales cockpit.  The store keeps the sessions, the selected session  *)
(* and the analysis on display; the Chat view renders the selected         *)
(* session and owns isSending; the hook holds one WebSocket, opened by an  *)
(* effect for the sessionId it was last run with.  The effect runs after   *)
(* the render that follows a store update, so between a change of the      *)
(* selection and the effect the socket of the previous session is still    *)
(* open and its handlers still run.                                        *)
(***************************************************************************)
DEMO_SESSION_ID == "S-XLC-589"

SessionIds == {DEMO_SESSION_ID, "S-1"}

NoSession == "null"

\* The stages the model lets the AI suggest (two of the six).
Stages == {"DISCOVERY", "CLOSING"}

\* journeyStageAnalysis.confidence, in percent.
Confidences == {70, 71}

INITIAL_ANALYSIS == [data |-> "initial", isAnalyzing |-> FALSE]

DEMO_ANALYSIS == [data |-> "demo", isAnalyzing |-> FALSE]

AbsentSession ==
    [exists |-> FALSE, status |-> "active", outcome |-> "null",
     journeyStage |-> "DISCOVERY", messages |-> <<>>,
     analysisState |-> INITIAL_ANALYSIS]

DemoSession ==
    [exists |-> TRUE, status |-> "active", outcome |-> "null",
     journeyStage |-> "OBJECTION_HANDLING", messages |-> <<"user", "ai">>,
     analysisState |-> DEMO_ANALYSIS]

NewSession == [AbsentSession EXCEPT !.exists = TRUE]

\* The types the backend sends on the socket, and one it does not know.
BackendTypes ==
    {"fast_response", "analysis_update", "analysis_status", "gotham_update",
     "processing", "system_busy", "analysis_error", "error",
     "analysis_result", "unknown"}

\* payload.data of an analysis: the backend behind the socket of session
\* sid analyses that session's conversation.
Payloads ==
    [sid : SessionIds, status : {"analyzing", "skipped"},
     stage : Stages, confidence : Confidences]

\* The payloads a message of a type can carry: a status for
\* analysis_status, an analysis for analysis_update and analysis_result,
\* nothing the handler reads for the other types.
PayloadsOf(type, sid) ==
    {d \in Payloads :
        /\ d.sid = sid
        /\ type # "analysis_status" => d.status = "skipped"
        /\ type \notin {"analysis_update", "analysis_result"}
               => (d.stage = "DISCOVERY" /\ d.confidence = 70)}

\* Chat: const session = currentSessionId ? sessions[currentSessionId] : null
Displayed(S, cur) == IF cur # NoSession /\ S[cur].exists THEN cur ELSE NoSession

\* store.addMessage
addMessage(S, sessionId, message) ==
    IF ~S[sessionId].exists THEN S
    ELSE [S EXCEPT ![sessionId].messages = Append(@, message)]

\* analysisMapper.mapBackendToFrontend: the partial AnalysisState of a
\* backend payload.
mapBackendToFrontend(data) ==
    [data |-> data.sid,
     hasStage |-> TRUE,
     journeyStageAnalysis |-> [currentStage |-> data.stage,
                               confidence |-> data.confidence]]

\* A variant of updateAnalysis that takes a confidence of 0.7 as high.
updateAnalysisAtLeast(S, cur, analysis, partial, sid) ==
    IF cur = NoSession \/ ~S[cur].exists
    THEN [sessions |-> S, currentAnalysis |-> analysis]
    ELSE LET updated == [analysis EXCEPT !.data = partial.data]
             ai == partial.journeyStageAnalysis
             stage == IF /\ partial.hasStage
                         /\ ai.confidence >= 70
                         /\ ai.currentStage # S[cur].journeyStage
                      THEN ai.currentStage ELSE S[cur].journeyStage
         IN  [sessions |-> [S EXCEPT ![cur].analysisState = updated,
                                     ![cur].journeyStage = stage],
              currentAnalysis |-> updated]

\* store.updateAnalysis(partial): the analysis is merged into the analysis
\* on display and stored in the session that is selected now; sid, the
\* session of the socket, is not passed to the store.
updateAnalysis(S, cur, analysis, partial, sid) ==
    IF cur = NoSession \/ ~S[cur].exists
    THEN [sessions |-> S, currentAnalysis |-> analysis]
    ELSE LET updated == [analysis EXCEPT !.data = partial.data]
             ai == partial.journeyStageAnalysis
             stage == IF /\ partial.hasStage
                         /\ ai.confidence > 70
                         /\ ai.currentStage # S[cur].journeyStage
                      THEN ai.currentStage ELSE S[cur].journeyStage
         IN  [sessions |-> [S EXCEPT ![cur].analysisState = updated,
                                     ![cur].journeyStage = stage],
              currentAnalysis |-> updated]

\* store.setAnalyzing
setAnalyzing(analysis, b) == [analysis EXCEPT !.isAnalyzing = b]

\* Chat's effect on [session?.messages]: stop loading when the last
\* message of the session on display is the AI's.
SendingAfter(S2, cur2, sending) ==
    LET old == Displayed(sessions, currentSessionId)
        new == Displayed(S2, cur2)
        oldm == IF old = NoSession THEN <<>> ELSE sessions[old].messages
        newm == IF new = NoSession THEN <<>> ELSE S2[new].messages
    IN  IF (new # old \/ newm # oldm) /\ newm # <<>> /\ newm[Len(newm)] = "ai"
        THEN FALSE ELSE sending

NoHandler == [op |-> "none", type |-> "none", status |-> "none"]

\* Number of messages added to the sessions since the start.
Appended(S) ==
    Len(S[DEMO_SESSION_ID].messages) + Len(S["S-1"].messages)
        - Len(DemoSession.messages)

\* The app renders Chat, and with it the hook, in the chat view only:
\* the sessionId the hook is called with.
HookSession(S, cur, view) ==
    IF view = "chat" THEN Displayed(S, cur) ELSE NoSession

\* store.createSession: the backend answered with the id of a new session.
createSession(id) ==
    /\ ~sessions[id].exists
    /\ sessions' = [sessions EXCEPT ![id] = NewSession]
    /\ currentSessionId' = id
    /\ currentAnalysis' = INITIAL_ANALYSIS
    /\ isSending' = SendingAfter(sessions', id, isSending)
    /\ flast' = NoHandler
    /\ currentView' = "chat"
    /\ UNCHANGED <<wsSession, wsState, isLearning, timers>>

\* store.selectSession
selectSession(id) ==
    /\ sessions[id].exists
    /\ currentSessionId # id \/ currentView # "chat"
    /\ currentSessionId' = id
    /\ currentAnalysis' = sessions[id].analysisState
    /\ isSending' = SendingAfter(sessions, id, isSending)
    /\ flast' = NoHandler
    /\ currentView' = "chat"
    /\ UNCHANGED <<sessions, wsSession, wsState, isLearning, timers>>

\* The hook's effect on [sessionId]: the cleanup closes the socket of the
\* previous session with code 1000, then connect() opens one for the
\* session now on display, if any.
SocketEffect ==
    LET sid == HookSession(sessions, currentSessionId, currentView)
    IN  /\ wsSession # sid
        /\ wsSession' = sid
        /\ wsState' = IF sid = NoSession THEN "none" ELSE "connecting"
        /\ flast' = NoHandler
        /\ UNCHANGED <<sessions, currentSessionId, currentAnalysis, isSending, varsClose>>

\* ws.onopen
OnOpen ==
    /\ wsState = "connecting"
    /\ wsState' = "open"
    /\ flast' = NoHandler
    /\ UNCHANGED <<sessions, currentSessionId, currentAnalysis, isSending, wsSession, varsClose>>

\* ws.onclose with a code other than 1000: the connection was lost.
OnClose ==
    /\ wsState \in {"connecting", "open"}
    /\ wsState' = "closed"
    /\ flast' = NoHandler
    /\ UNCHANGED <<sessions, currentSessionId, currentAnalysis, isSending, wsSession, varsClose>>

\* The reconnect timer set by onclose fires: connect().
Reconnect ==
    /\ wsState = "closed"
    /\ wsState' = "connecting"
    /\ flast' = NoHandler
    /\ UNCHANGED <<sessions, currentSessionId, currentAnalysis, isSending, wsSession, varsClose>>

\* ws.onmessage: the handler of the socket opened for wsSession, for a
\* message of type type with payload data.
OnMessage(type, data) ==
    /\ wsState = "open"
    /\ type = "fast_response" => Appended(sessions) < MaxMsgs
    /\ LET sid == wsSession
           upd == updateAnalysis(sessions, currentSessionId, currentAnalysis,
                                 mapBackendToFrontend(data), sid)
       IN  CASE type = "fast_response" ->
                    /\ sessions' = addMessage(sessions, sid, "ai")
                    /\ currentAnalysis' = setAnalyzing(currentAnalysis, FALSE)
             [] type = "analysis_update" ->
                    /\ sessions' = upd.sessions
                    /\ currentAnalysis' = setAnalyzing(upd.currentAnalysis, FALSE)
             [] type = "analysis_status" ->
                    /\ currentAnalysis' =
                           setAnalyzing(currentAnalysis, data.status = "analyzing")
                    /\ UNCHANGED sessions
             [] type = "processing" ->
                    /\ currentAnalysis' = setAnalyzing(currentAnalysis, TRUE)
                    /\ UNCHANGED sessions
             [] type = "analysis_error" ->
                    /\ currentAnalysis' = setAnalyzing(currentAnalysis, FALSE)
                    /\ UNCHANGED sessions
             [] OTHER ->
                    \* gotham_update (the store has no setGothamData: the
                    \* call throws inside the try), system_busy, and the
                    \* final else: logged, nothing changes.
                    UNCHANGED <<sessions, currentAnalysis>>
    /\ isSending' = SendingAfter(sessions', currentSessionId, isSending)
    /\ flast' = [op |-> "message", type |-> type,
                 status |-> IF type = "analysis_status" THEN data.status ELSE "none"]
    /\ UNCHANGED <<currentSessionId, wsSession, wsState, varsClose>>

\* useWebSocket.sendMessage: sends when the socket is open, otherwise
\* warns on the console and returns.
SocketOpen == wsState = "open"

\* Chat.handleSend for a non-blank text.
handleSend ==
    LET sid == Displayed(sessions, currentSessionId)
    IN  /\ currentView = "chat"
        /\ sid # NoSession
        /\ sessions[sid].status # "closed"
        /\ Appended(sessions) < MaxMsgs
        /\ sessions' = addMessage(sessions, sid, "user")
        /\ isSending' = TRUE
        /\ currentAnalysis' = setAnalyzing(currentAnalysis, TRUE)
        /\ flast' = [NoHandler EXCEPT !.op = "handleSend"]
        /\ UNCHANGED <<currentSessionId, wsSession, wsState, varsClose>>

\* store.setView('dashboard') from the sidebar: Chat is unmounted and its
\* local state is lost.
setView(view) ==
    /\ currentView # view
    /\ currentView' = view
    /\ isSending' = FALSE
    /\ isLearning' = FALSE
    /\ flast' = NoHandler
    /\ UNCHANGED <<sessions, currentSessionId, currentAnalysis, wsSession, wsState, timers>>

\* store.updateJourneyStage
updateJourneyStage(S, sessionId, stage) == [S EXCEPT ![sessionId].journeyStage = stage]

\* A journey stage button of Chat: !isReadOnly && updateJourneyStage(...).
StageButton(stage) ==
    LET sid == Displayed(sessions, currentSessionId)
    IN  /\ currentView = "chat"
        /\ sid # NoSession
        /\ sessions[sid].status # "closed"
        /\ sessions[sid].journeyStage # stage
        /\ sessions' = updateJourneyStage(sessions, sid, stage)
        /\ flast' = NoHandler
        /\ UNCHANGED <<currentSessionId, currentAnalysis, isSending, wsSession, wsState, varsClose>>

SaleOutcomes == {"sale", "no_sale"}

\* Chat.handleOutcomeSelection, from the End Session dialog, which an
\* active session offers and which shows no buttons while isLearning:
\* the close is scheduled 1.5 s later for the session on display.
handleOutcomeSelection(outcome) ==
    LET sid == Displayed(sessions, currentSessionId)
    IN  /\ currentView = "chat"
        /\ sid # NoSession
        /\ sessions[sid].status # "closed"
        /\ ~isLearning
        /\ Cardinality(timers) < MaxTimers
        /\ isLearning' = TRUE
        /\ timers' = timers \cup {[sid |-> sid, outcome |-> outcome]}
        /\ flast' = NoHandler
        /\ UNCHANGED <<sessions, currentSessionId, currentAnalysis, isSending,
                       wsSession, wsState, currentView>>

\* store.closeSession
closeSession(S, cur, view, id, outcome) ==
    IF ~S[id].exists
    THEN [sessions |-> S, currentSessionId |-> cur, currentView |-> view]
    ELSE [sessions |-> [S EXCEPT ![id].status = "closed", ![id].outcome = outcome],
          currentSessionId |-> NoSession,
          currentView |-> "dashboard"]

\* The timer of handleOutcomeSelection fires: setIsLearning(false),
\* closeSession(session.id, outcome) with the session of the render that
\* set it.  With no session selected Chat is unmounted.
CloseTimer(t) ==
    LET c == closeSession(sessions, currentSessionId, currentView, t.sid, t.outcome)
    IN  /\ t \in timers
        /\ timers' = timers \ {t}
        /\ sessions' = c.sessions
        /\ currentSessionId' = c.currentSessionId
        /\ currentView' = c.currentView
        /\ isLearning' = FALSE
        /\ isSending' = IF c.currentSessionId = NoSession THEN FALSE ELSE isSending
        /\ flast' = [op |-> "closeSession", type |-> t.sid, status |-> t.outcome]
        /\ UNCHANGED <<currentAnalysis, wsSession, wsState>>

(***************************************************************************)
(* The WebSocket hook (hooks/useWebSocket.ts) with every socket and every  *)
(* reconnect timer it creates.  A socket is known by its number; the timer *)
(* set by the onclose of socket k is timer k.                              *)
(***************************************************************************)
RECONNECT_DELAY == 3000

NORMAL_CLOSURE == 1000

\* The codes of a close event: normal closure, and abnormal closure (the
\* connection failed or was lost).
CloseCodes == {NORMAL_CLOSURE, 1006}

NoSocket == [sid |-> NoSession, st |-> "unused"]

NoStep == [op |-> "none", sock |-> 0, sid |-> NoSession, code |-> 0]

\* connect(): new WebSocket(fullWsUrl) for the sessionId of the effect's
\* closure; wsRef.current = ws.
Connect(S, n, sid) == [S EXCEPT ![n + 1] = [sid |-> sid, st |-> "connecting"]]

\* ws.close(1000, ...) as the browser carries it out: a socket still
\* connecting fails its connection, an open one starts the closing
\* handshake, a closing or closed one is left alone.
CloseCalled(S, k) ==
    IF k = 0 THEN S
    ELSE CASE S[k].st = "connecting" -> [S EXCEPT ![k].st = "failing"]
           [] S[k].st = "open" -> [S EXCEPT ![k].st = "closing"]
           [] OTHER -> S

\* A variant of the onclose test that reconnects after every close.
ReconnectAlways(code, sessionId) == sessionId # NoSession

\* ws.onclose: if (event.code !== 1000 && sessionId)
ShouldReconnect(code, sessionId) == code # NORMAL_CLOSURE /\ sessionId # NoSession

\* The hook is rendered with another sessionId (null when no session is
\* selected or Chat is unmounted): the cleanup of the previous effect, if it
\* connected, then the effect for sessionId.
Effect(sessionId) ==
    LET hadCleanup == hsid # NoSession
        tp == IF hadCleanup THEN tpend \ {t \in tpend : t.id = timerRef} ELSE tpend
        closed == IF hadCleanup THEN CloseCalled(socks, wsRef) ELSE socks
        ref == IF hadCleanup THEN 0 ELSE wsRef
    IN  /\ sessionId # hsid
        /\ sessionId # NoSession => nsock < MaxSockets
        /\ hsid' = sessionId
        /\ tpend' = tp
        /\ timerRef' = IF hadCleanup THEN 0 ELSE timerRef
        /\ IF sessionId = NoSession
           THEN /\ socks' = CloseCalled(closed, ref)
                /\ wsRef' = 0
                /\ UNCHANGED nsock
           ELSE /\ socks' = Connect(closed, nsock, sessionId)
                /\ nsock' = nsock + 1
                /\ wsRef' = nsock + 1
        /\ hlast' = [NoStep EXCEPT !.op = "effect", !.sid = sessionId]

\* ws.onopen of socket k
SockOpen(k) ==
    /\ socks[k].st = "connecting"
    /\ socks' = [socks EXCEPT ![k].st = "open"]
    /\ hlast' = [NoStep EXCEPT !.op = "open", !.sock = k, !.sid = socks[k].sid]
    /\ UNCHANGED <<hsid, nsock, wsRef, timerRef, tpend>>

\* The close event of socket k with a code, and its onclose handler.  A
\* connection that fails before it is established, by itself or because
\* close() was called, closes with 1006; an established one closes with
\* 1000 or, when it is lost, with 1006.
SockClose(k, code) ==
    /\ socks[k].st \in {"connecting", "failing", "open", "closing"}
    /\ socks[k].st \in {"connecting", "failing"} => code # NORMAL_CLOSURE
    /\ socks' = [socks EXCEPT ![k].st = "closed"]
    /\ IF ShouldReconnect(code, socks[k].sid)
       THEN /\ tpend' = tpend \cup {[id |-> k, sid |-> socks[k].sid,
                                     delay |-> RECONNECT_DELAY]}
            /\ timerRef' = k
       ELSE UNCHANGED <<tpend, timerRef>>
    /\ hlast' = [op |-> "close", sock |-> k, sid |-> socks[k].sid, code |-> code]
    /\ UNCHANGED <<hsid, nsock, wsRef>>

\* A reconnect timer fires: connect().
TimerFire(t) ==
    /\ t \in tpend
    /\ nsock < MaxSockets
    /\ tpend' = tpend \ {t}
    /\ socks' = Connect(socks, nsock, t.sid)
    /\ nsock' = nsock + 1
    /\ wsRef' = nsock + 1
    /\ hlast' = [NoStep EXCEPT !.op = "timer", !.sock = nsock + 1, !.sid = t.sid]
    /\ UNCHANGED <<hsid, timerRef>>

(***************************************************************************)
(* store.updateAnalysis applied once to a store and a partial analysis     *)
(* drawn from small sets.                                                  *)
(***************************************************************************)
StageValues == {"DISCOVERY", "OBJECTION_HANDLING", "CLOSING"}

\* Confidence in percent: none, under, at and over the threshold, full.
StageConfidences == {0, 69, 70, 71, 100}

\* Stores: the demo session at any stage, S-1 present or not.
Stores ==
    {[id \in SessionIds |->
         IF id = DEMO_SESSION_ID THEN [DemoSession EXCEPT !.journeyStage = st]
         ELSE IF other THEN NewSession ELSE AbsentSession] :
       st \in StageValues, other \in BOOLEAN}

\* Partial analyses, with and without a journeyStageAnalysis.
Partials ==
    [data : {"new"}, hasStage : BOOLEAN,
     journeyStageAnalysis : [currentStage : StageValues, confidence : StageConfidences]]

NoUpdate ==
    [done |-> FALSE, cur |-> NoSession,
     partial |-> [data |-> "new", hasStage |-> FALSE,
                  journeyStageAnalysis |-> [currentStage |-> "DISCOVERY", confidence |-> 0]],
     before |-> [id \in SessionIds |-> AbsentSession],
     after |-> [id \in SessionIds |-> AbsentSession],
     analysis |-> INITIAL_ANALYSIS]

\* One call of updateAnalysis(partial) on the store S with cur selected.
UpdateOnce(S, cur, partial) ==
    LET r == updateAnalysis(S, cur, INITIAL_ANALYSIS, partial, cur)
    IN  ures' = [done |-> TRUE, cur |-> cur, partial |-> partial, before |-> S,
                 after |-> r.sessions, analysis |-> r.currentAnalysis]

(***************************************************************************)
(* The Lead Refinery (asset_sniper/lead_refinery.py): validation of the    *)
(* NIP, the 10-digit national business identifier, by its checksum, and    *)
(* normalization of phone numbers to the form 48XXXXXXXXX.                 *)
(***************************************************************************)
\* The weights of the first nine digits of a NIP.
NIP_WEIGHTS == <<6, 5, 7, 2, 3, 4, 5, 6, 7>>

\* The identifiers fed to the refinery: nine leading digits, of the NIP
\* 526-104-08-28 and its neighbours and of 123456789...
NipBases ==
    {<<5, 2, 6, 1, 0, 4, 0, a, b>> : a \in {0, 8}, b \in 0..9}
        \cup {<<1, 2, 3, 4, 5, 6, 7, 8, 9>>}

\* ... alone (too short), followed by any final digit, or by two (too long).
RawNips ==
    NipBases
        \cup {Append(b, d) : b \in NipBases, d \in 0..9}
        \cup {b \o <<d, 0>> : b \in NipBases, d \in {0, 8}}

RECURSIVE WeightedSum(_, _)
WeightedSum(d, i) ==
    IF i = 0 THEN 0 ELSE NIP_WEIGHTS[i] * d[i] + WeightedSum(d, i - 1)

\* The check digit the first nine digits call for; 10 is no digit.
NipChecksum(d) == WeightedSum(d, 9) % 11

\* A variant of the validation that looks at the length only.
AnyTenDigits(d) == Len(d) = 10

\* Validation of a NIP: ten digits, the last one the checksum of the rest.
ValidNip(d) == Len(d) = 10 /\ NipChecksum(d) = d[10]

NoNip == [done |-> FALSE, nip |-> <<>>, accepted |-> FALSE]

\* clean() on the identifier of one record.
CleanNip(d) == nres' = [done |-> TRUE, nip |-> d, accepted |-> ValidNip(d)]

DigitChars == <<"0", "1", "2", "3", "4", "5", "6", "7", "8", "9">>

IsDigit(c) == \E i \in 1..10 : DigitChars[i] = c

COUNTRY_CODE == <<"4", "8">>

\* Subscriber numbers: nine digits, one of them beginning with 48.
Subscribers ==
    {h \o t : h \in {<<"6", "0", "1">>, <<"4", "8", "1">>, <<"2", "2", "5">>},
              t \in {<<"2", "3", "4", "5", "6", "7">>, <<"0", "0", "0", "0", "0", "0">>,
                     <<"9", "8", "7", "6", "5", "4">>, <<"1", "1", "1", "2", "2", "2">>,
                     <<"4", "8", "4", "8", "4", "8">>}}

\* The ways a subscriber number is written in a registry export.
PhoneFormats ==
    {"bare", "48", "+48", "0048", "spaced", "dashed", "short", "long", "foreign"}

Written(n, fmt) ==
    CASE fmt = "bare" -> n
      [] fmt = "48" -> COUNTRY_CODE \o n
      [] fmt = "+48" -> <<"+">> \o COUNTRY_CODE \o n
      [] fmt = "0048" -> <<"0", "0">> \o COUNTRY_CODE \o n
      [] fmt = "spaced" ->
             <<"+">> \o COUNTRY_CODE \o <<" ">> \o SubSeq(n, 1, 3) \o <<" ">>
                 \o SubSeq(n, 4, 6) \o <<" ">> \o SubSeq(n, 7, 9)
      [] fmt = "dashed" ->
             SubSeq(n, 1, 3) \o <<"-">> \o SubSeq(n, 4, 6) \o <<"-">> \o SubSeq(n, 7, 9)
      [] fmt = "short" -> SubSeq(n, 1, 8)
      [] fmt = "long" -> n \o <<"0">>
      [] fmt = "foreign" -> <<"+", "4", "9">> \o n

RawPhones == {Written(n, fmt) : n \in Subscribers, fmt \in PhoneFormats} \cup {<<>>}

NoPhone == [valid |-> FALSE, digits |-> <<>>]

\* A variant of the normalization that puts the country code in front of
\* whatever digits it finds.
AlwaysPrefix(raw) ==
    LET digits == SelectSeq(raw, IsDigit)
    IN  IF Len(digits) \in {9, 11, 13}
        THEN [valid |-> TRUE, digits |-> COUNTRY_CODE \o digits]
        ELSE NoPhone

\* Normalization of a phone number: non-digits are stripped, the country
\* code 48 (also written 0048) is recognised, and the result is the
\* eleven digits 48XXXXXXXXX; anything else has no valid form.
NormalizePhone(raw) ==
    LET digits == SelectSeq(raw, IsDigit)
    IN  CASE Len(digits) = 9 ->
                 [valid |-> TRUE, digits |-> COUNTRY_CODE \o digits]
          [] Len(digits) = 11 /\ SubSeq(digits, 1, 2) = COUNTRY_CODE ->
                 [valid |-> TRUE, digits |-> digits]
          [] Len(digits) = 13 /\ SubSeq(digits, 1, 4) = <<"0", "0">> \o COUNTRY_CODE ->
                 [valid |-> TRUE, digits |-> SubSeq(digits, 3, 13)]
          [] OTHER -> NoPhone

NoPhoneRun == [step |-> 0, raw |-> <<>>, first |-> NoPhone, second |-> NoPhone]

\* The refinery normalizes the phone of a raw record ...
CleanPhone(raw) ==
    pres' = [step |-> 1, raw |-> raw, first |-> NormalizePhone(raw), second |-> NoPhone]

\* ... and the cleaned file is fed to the refinery again.
CleanPhoneAgain ==
    /\ pres.step = 1
    /\ pres.first.valid
    /\ pres' = [pres EXCEPT !.step = 2, !.second = NormalizePhone(pres.first.digits)]

(***************************************************************************)
(* Specifications.  Every specification starts from the same state: empty  *)
(* cache files, the clock at 0, idle workers.                              *)
(***************************************************************************)
Init ==
    /\ cache = EmptyCache
    /\ now = 0
    /\ last = NoOp
    /\ file = EmptyFile
    /\ wpc = [w \in Workers |-> "idle"]
    /\ wjob = [w \in Workers |-> IdleJob]
    /\ wbuf = [w \in Workers |-> EmptyFile]
    /\ acked = {}
    /\ nsets = 0
    /\ scored = NotScored
    /\ input = <<>>
    /\ cfg = DefaultCfg
    /\ source = "up"
    /\ pos = 1
    /\ out = <<>>
    /\ stats = NoStats
    /\ bpc = "idle"
    /\ inflight = FALSE
    /\ bcancel = FALSE
    /\ dn = 0
    /\ dtask = [l \in Leads |-> "absent"]
    /\ dbatch = {}
    /\ dpc = "idle"
    /\ rgw = "cepik"
    /\ rpc = "idle"
    /\ rlog = <<>>
    /\ rwaits = <<>>
    /\ rres = "none"
    /\ rcalls = 0
    /\ pbrand = "TESLA"
    /\ psrc = [endless |-> FALSE, total |-> 0]
    /\ ppage = 0
    /\ ppar = 0
    /\ pacc = 0
    /\ pcounts = [b \in Brands |-> NotFetched]
    /\ ppc = "idle"
    /\ idata = [r \in Regions |-> NoRegionalData]
    /\ sessions = [id \in SessionIds |->
                       IF id = DEMO_SESSION_ID THEN DemoSession ELSE AbsentSession]
    /\ currentSessionId = NoSession
    /\ currentAnalysis = INITIAL_ANALYSIS
    /\ isSending = FALSE
    /\ wsSession = NoSession
    /\ currentView = "dashboard"
    /\ isLearning = FALSE
    /\ timers = {}
    /\ ures = NoUpdate
    /\ hsid = NoSession
    /\ socks = [k \in 1..MaxSockets |-> NoSocket]
    /\ nsock = 0
    /\ wsRef = 0
    /\ timerRef = 0
    /\ tpend = {}
    /\ hlast = NoStep
    /\ nres = NoNip
    /\ pres = NoPhoneRun
    /\ wsState = "none"
    /\ flast = NoHandler

DoLookup ==
    /\ \E k \in Keys, force \in BOOLEAN, o \in Outcomes, d \in SourceData :
           Lookup(k, force, o, d)
    /\ UNCHANGED <<varsRace, varsScore, varsBatch, varsDeep, varsRetry, varsPages, varsIntegrity, varsChat, varsClose, varsStage, varsSocket, varsRefinery>>

DoInvalidate == (\E k \in Keys : Invalidate(k)) /\ UNCHANGED <<varsRace, varsScore, varsBatch, varsDeep, varsRetry, varsPages, varsIntegrity, varsChat, varsClose, varsStage, varsSocket, varsRefinery>>

DoTick == Tick /\ UNCHANGED <<varsRace, varsScore, varsBatch, varsDeep, varsRetry, varsPages, varsIntegrity, varsChat, varsClose, varsStage, varsSocket, varsRefinery>>

NextCache == DoLookup \/ DoInvalidate \/ DoTick

DoStartSet ==
    /\ \E w \in Workers, k \in FileKeys, p \in RacePayloads : StartSet(w, k, p)
    /\ UNCHANGED <<varsCache, varsScore, varsBatch, varsDeep, varsRetry, varsPages, varsIntegrity, varsChat, varsClose, varsStage, varsSocket, varsRefinery>>

DoLoadFile == (\E w \in Workers : LoadFile(w)) /\ UNCHANGED <<varsCache, varsScore, varsBatch, varsDeep, varsRetry, varsPages, varsIntegrity, varsChat, varsClose, varsStage, varsSocket, varsRefinery>>

DoWriteTemp == (\E w \in Workers : WriteTemp(w)) /\ UNCHANGED <<varsCache, varsScore, varsBatch, varsDeep, varsRetry, varsPages, varsIntegrity, varsChat, varsClose, varsStage, varsSocket, varsRefinery>>

DoRename == (\E w \in Workers : Rename(w)) /\ UNCHANGED <<varsCache, varsScore, varsBatch, varsDeep, varsRetry, varsPages, varsIntegrity, varsChat, varsClose, varsStage, varsSocket, varsRefinery>>

DoGetFile == (\E w \in Workers : GetFile(w)) /\ UNCHANGED <<varsCache, varsScore, varsBatch, varsDeep, varsRetry, varsPages, varsIntegrity, varsChat, varsClose, varsStage, varsSocket, varsRefinery>>

NextRace == DoStartSet \/ DoLoadFile \/ DoWriteTemp \/ DoRename \/ DoGetFile

DoScore ==
    /\ ~scored.done
    /\ \E t \in PkdTiers, w \in WealthTiers, uw \in RestPoints(15),
          a \in AgeBands, ua \in RestPoints(15),
          c \in ChargerBands, uc \in RestPoints(9),
          phone \in BOOLEAN, email \in BOOLEAN, www \in BOOLEAN :
           Score(t, w, uw, a, ua, c, uc, phone, email, www)
    /\ UNCHANGED <<varsCache, varsRace, varsBatch, varsDeep, varsRetry, varsPages, varsIntegrity, varsChat, varsClose, varsStage, varsSocket, varsRefinery>>

NextScore == DoScore

DoStartRun ==
    /\ bpc = "idle"
    /\ \E rows \in Inputs, c \in Configs, src \in Sources : StartRun(rows, c, src)
    /\ UNCHANGED <<varsCache, varsRace, varsScore, varsDeep, varsRetry, varsPages, varsIntegrity, varsChat, varsClose, varsStage, varsSocket, varsRefinery>>

DoProcessChunk ==
    /\ \E k \in 0..MaxRows : ProcessChunk(k)
    /\ UNCHANGED <<varsCache, varsRace, varsScore, varsDeep, varsRetry, varsPages, varsIntegrity, varsChat, varsClose, varsStage, varsSocket, varsRefinery>>

DoFinishRun == FinishRun /\ UNCHANGED <<varsCache, varsRace, varsScore, varsDeep, varsRetry, varsPages, varsIntegrity, varsChat, varsClose, varsStage, varsSocket, varsRefinery>>

DoBeginChunk == BeginChunk /\ UNCHANGED <<varsCache, varsRace, varsScore, varsDeep, varsRetry, varsPages, varsIntegrity, varsChat, varsClose, varsStage, varsSocket, varsRefinery>>

DoRequestCancel == RequestCancel /\ UNCHANGED <<varsCache, varsRace, varsScore, varsDeep, varsRetry, varsPages, varsIntegrity, varsChat, varsClose, varsStage, varsSocket, varsRefinery>>

DoStopCancelled == StopCancelled /\ UNCHANGED <<varsCache, varsRace, varsScore, varsDeep, varsRetry, varsPages, varsIntegrity, varsChat, varsClose, varsStage, varsSocket, varsRefinery>>

NextBatch == DoStartRun \/ DoBeginChunk \/ DoProcessChunk \/ DoFinishRun

NextCancel ==
    \/ DoStartRun \/ DoBeginChunk \/ DoProcessChunk \/ DoFinishRun
    \/ DoRequestCancel \/ DoStopCancelled

DoStartDeep ==
    /\ \E n \in 0..MaxLeads : StartDeep(n)
    /\ UNCHANGED <<varsCache, varsRace, varsScore, varsBatch, varsRetry, varsPages, varsIntegrity, varsChat, varsClose, varsStage, varsSocket, varsRefinery>>

DoBeginCall ==
    /\ \E l \in Leads : BeginCall(l)
    /\ UNCHANGED <<varsCache, varsRace, varsScore, varsBatch, varsRetry, varsPages, varsIntegrity, varsChat, varsClose, varsStage, varsSocket, varsRefinery>>

DoEndCall ==
    /\ \E l \in Leads, ok \in BOOLEAN : EndCall(l, ok)
    /\ UNCHANGED <<varsCache, varsRace, varsScore, varsBatch, varsRetry, varsPages, varsIntegrity, varsChat, varsClose, varsStage, varsSocket, varsRefinery>>

DoGathered == Gathered /\ UNCHANGED <<varsCache, varsRace, varsScore, varsBatch, varsRetry, varsPages, varsIntegrity, varsChat, varsClose, varsStage, varsSocket, varsRefinery>>

DoWake == Wake /\ UNCHANGED <<varsCache, varsRace, varsScore, varsBatch, varsRetry, varsPages, varsIntegrity, varsChat, varsClose, varsStage, varsSocket, varsRefinery>>

NextDeep == DoStartDeep \/ DoBeginCall \/ DoEndCall \/ DoGathered \/ DoWake

DoStartFetch ==
    /\ \E g \in Gateways : StartFetch(g)
    /\ UNCHANGED <<varsCache, varsRace, varsScore, varsBatch, varsDeep, varsPages, varsIntegrity, varsChat, varsClose, varsStage, varsSocket, varsRefinery>>

DoAttempt ==
    /\ \E o \in Outcomes : Attempt(o)
    /\ UNCHANGED <<varsCache, varsRace, varsScore, varsBatch, varsDeep, varsPages, varsIntegrity, varsChat, varsClose, varsStage, varsSocket, varsRefinery>>

DoSleep == Sleep /\ UNCHANGED <<varsCache, varsRace, varsScore, varsBatch, varsDeep, varsPages, varsIntegrity, varsChat, varsClose, varsStage, varsSocket, varsRefinery>>

NextRetry == DoStartFetch \/ DoAttempt \/ DoSleep

DoStartPaged ==
    /\ \E b \in Brands, src \in SourceTotals : StartPaged(b, src)
    /\ UNCHANGED <<varsCache, varsRace, varsScore, varsBatch, varsDeep, varsRetry, varsIntegrity, varsChat, varsClose, varsStage, varsSocket, varsRefinery>>

DoRequestPage ==
    /\ RequestPage
    /\ UNCHANGED <<varsCache, varsRace, varsScore, varsBatch, varsDeep, varsRetry, varsIntegrity, varsChat, varsClose, varsStage, varsSocket, varsRefinery>>

NextPages == DoStartPaged \/ DoRequestPage

DoGetRegionalData ==
    /\ \E r \in Regions, n \in RegistryCounts, f \in BOOLEAN : GetRegionalData(r, n, f)
    /\ UNCHANGED <<varsCache, varsRace, varsScore, varsBatch, varsDeep, varsRetry, varsPages, varsChat, varsClose, varsStage, varsSocket, varsRefinery>>

NextIntegrity == DoGetRegionalData

DoCreateSession ==
    /\ \E id \in SessionIds : createSession(id)
    /\ UNCHANGED <<varsCache, varsRace, varsScore, varsBatch, varsDeep, varsRetry, varsPages, varsIntegrity, varsStage, varsSocket, varsRefinery>>

DoSelectSession ==
    /\ \E id \in SessionIds : selectSession(id)
    /\ UNCHANGED <<varsCache, varsRace, varsScore, varsBatch, varsDeep, varsRetry, varsPages, varsIntegrity, varsStage, varsSocket, varsRefinery>>

DoSocketEffect == SocketEffect /\ UNCHANGED <<varsCache, varsRace, varsScore, varsBatch, varsDeep, varsRetry, varsPages, varsIntegrity, varsStage, varsSocket, varsRefinery>>

DoOnOpen == OnOpen /\ UNCHANGED <<varsCache, varsRace, varsScore, varsBatch, varsDeep, varsRetry, varsPages, varsIntegrity, varsStage, varsSocket, varsRefinery>>

DoOnClose == OnClose /\ UNCHANGED <<varsCache, varsRace, varsScore, varsBatch, varsDeep, varsRetry, varsPages, varsIntegrity, varsStage, varsSocket, varsRefinery>>

DoReconnect == Reconnect /\ UNCHANGED <<varsCache, varsRace, varsScore, varsBatch, varsDeep, varsRetry, varsPages, varsIntegrity, varsStage, varsSocket, varsRefinery>>

DoOnMessage ==
    /\ wsState = "open"
    /\ \E type \in BackendTypes :
           \E data \in PayloadsOf(type, wsSession) : OnMessage(type, data)
    /\ UNCHANGED <<varsCache, varsRace, varsScore, varsBatch, varsDeep, varsRetry, varsPages, varsIntegrity, varsStage, varsSocket, varsRefinery>>

DoHandleSend == handleSend /\ UNCHANGED <<varsCache, varsRace, varsScore, varsBatch, varsDeep, varsRetry, varsPages, varsIntegrity, varsStage, varsSocket, varsRefinery>>

NextChat ==
    \/ DoCreateSession \/ DoSelectSession \/ DoSocketEffect
    \/ DoOnOpen \/ DoOnClose \/ DoReconnect
    \/ DoOnMessage \/ DoHandleSend

DoCleanNip ==
    /\ \E d \in RawNips : CleanNip(d)
    /\ UNCHANGED <<varsCache, varsRace, varsScore, varsBatch, varsDeep, varsRetry, varsPages, varsIntegrity, varsChat, varsClose, varsStage, varsSocket, pres>>

DoCleanPhone ==
    /\ \E raw \in RawPhones : CleanPhone(raw)
    /\ UNCHANGED <<varsCache, varsRace, varsScore, varsBatch, varsDeep, varsRetry, varsPages, varsIntegrity, varsChat, varsClose, varsStage, varsSocket, nres>>

DoCleanPhoneAgain ==
    /\ CleanPhoneAgain
    /\ UNCHANGED <<varsCache, varsRace, varsScore, varsBatch, varsDeep, varsRetry, varsPages, varsIntegrity, varsChat, varsClose, varsStage, varsSocket, nres>>

NextNip == DoCleanNip

NextPhone == DoCleanPhone \/ DoCleanPhoneAgain

DoSetView == setView("dashboard") /\ UNCHANGED <<varsCache, varsRace, varsScore, varsBatch, varsDeep, varsRetry, varsPages, varsIntegrity, varsStage, varsSocket, varsRefinery>>

DoStageButton ==
    /\ \E stage \in Stages : StageButton(stage)
    /\ UNCHANGED <<varsCache, varsRace, varsScore, varsBatch, varsDeep, varsRetry, varsPages, varsIntegrity, varsStage, varsSocket, varsRefinery>>

DoHandleOutcomeSelection ==
    /\ \E outcome \in SaleOutcomes : handleOutcomeSelection(outcome)
    /\ UNCHANGED <<varsCache, varsRace, varsScore, varsBatch, varsDeep, varsRetry, varsPages, varsIntegrity, varsStage, varsSocket, varsRefinery>>

DoCloseTimer ==
    /\ \E t \in timers : CloseTimer(t)
    /\ UNCHANGED <<varsCache, varsRace, varsScore, varsBatch, varsDeep, varsRetry, varsPages, varsIntegrity, varsStage, varsSocket, varsRefinery>>

\* The message the session model lets the backend send: the AI's answer
\* (the analysis messages are followed in SpecChat).
DoSessionMessage ==
    /\ wsState = "open"
    /\ \E data \in PayloadsOf("fast_response", wsSession) :
           OnMessage("fast_response", data)
    /\ UNCHANGED <<varsCache, varsRace, varsScore, varsBatch, varsDeep, varsRetry, varsPages, varsIntegrity, varsStage, varsSocket, varsRefinery>>

NextSession ==
    \/ DoCreateSession \/ DoSelectSession \/ DoSetView
    \/ DoStageButton \/ DoHandleOutcomeSelection \/ DoCloseTimer
    \/ DoHandleSend \/ DoSocketEffect \/ DoOnOpen \/ DoSessionMessage

DoUpdateOnce ==
    /\ \E S \in Stores, cur \in SessionIds \cup {NoSession}, partial \in Partials :
           UpdateOnce(S, cur, partial)
    /\ UNCHANGED <<varsCache, varsRace, varsScore, varsBatch, varsDeep, varsRetry, varsPages, varsIntegrity, varsChat, varsClose, varsSocket, varsRefinery>>

NextStage == DoUpdateOnce

DoEffect ==
    /\ \E sessionId \in SessionIds \cup {NoSession} : Effect(sessionId)
    /\ UNCHANGED <<varsCache, varsRace, varsScore, varsBatch, varsDeep, varsRetry, varsPages, varsIntegrity, varsChat, varsClose, varsStage, varsRefinery>>

DoSockOpen ==
    /\ \E k \in 1..MaxSockets : SockOpen(k)
    /\ UNCHANGED <<varsCache, varsRace, varsScore, varsBatch, varsDeep, varsRetry, varsPages, varsIntegrity, varsChat, varsClose, varsStage, varsRefinery>>

DoSockClose ==
    /\ \E k \in 1..MaxSockets, code \in CloseCodes : SockClose(k, code)
    /\ UNCHANGED <<varsCache, varsRace, varsScore, varsBatch, varsDeep, varsRetry, varsPages, varsIntegrity, varsChat, varsClose, varsStage, varsRefinery>>

DoTimerFire ==
    /\ \E t \in tpend : TimerFire(t)
    /\ UNCHANGED <<varsCache, varsRace, varsScore, varsBatch, varsDeep, varsRetry, varsPages, varsIntegrity, varsChat, varsClose, varsStage, varsRefinery>>

NextSocket == DoEffect \/ DoSockOpen \/ DoSockClose \/ DoTimerFire

SpecCache == Init /\ [][NextCache]_vars

SpecRace == Init /\ [][NextRace]_vars

SpecScore == Init /\ [][NextScore]_vars

SpecBatch == Init /\ [][NextBatch]_vars

SpecCancel == Init /\ [][NextCancel]_vars

\* The orchestrator is one sequential loop that never stalls: a chunk being
\* processed is eventually finished, and at a chunk boundary with nothing
\* more to read, or with the request pending, the loop is left.
ChunkCompletes == bpc = "running" /\ inflight /\ inflight' = FALSE

SpecCancelLive ==
    /\ SpecCancel
    /\ WF_inflight(ChunkCompletes)
    /\ WF_vars(DoStopCancelled)
    /\ WF_vars(DoFinishRun)

SpecDeep == Init /\ [][NextDeep]_vars

SpecRetry == Init /\ [][NextRetry]_vars

SpecIntegrity == Init /\ [][NextIntegrity]_vars

SpecChat == Init /\ [][NextChat]_vars

\* The hook's effect runs after every render and a reconnect timer that
\* is set fires; and the backend is taken to answer: if the socket is open
\* again and again while the spinner is on, a message that stops it (the
\* AI's answer or an analysis error) arrives.  A connection attempt ends,
\* but nothing says that it succeeds.
AttemptEnds == wsState = "connecting" /\ wsState' \in {"open", "closed"}

SpinnerStopped ==
    /\ wsState = "open"
    /\ currentAnalysis.isAnalyzing
    /\ currentAnalysis' = setAnalyzing(currentAnalysis, FALSE)

SpecChatLive ==
    /\ SpecChat
    /\ WF_vars(DoSocketEffect)
    /\ WF_vars(DoReconnect)
    /\ WF_wsState(AttemptEnds)
    /\ SF_currentAnalysis(SpinnerStopped)

SpecSession == Init /\ [][NextSession]_vars

SpecSocket == Init /\ [][NextSocket]_vars

SpecStage == Init /\ [][NextStage]_vars

SpecNip == Init /\ [][NextNip]_vars

SpecPhone == Init /\ [][NextPhone]_vars

\* The connector does not stall inside the loop: a page request that can be
\* made is made.
SpecPages == Init /\ [][NextPages]_vars /\ WF_vars(DoRequestPage)

(***************************************************************************)
(* Claims on the Cache Store and the gateways.                             *)
(***************************************************************************)
FetchFailed == last.op = "lookup" /\ last.fetched /\ last.outcome # "ok"

\* C1: whenever a gateway fetch for a key fails and the store holds an
\* expired entry for that key, the value served is that stale entry's
\* payload, non-null, tagged cachedStale; no null or zero is served as real.
C1_StaleEntryServedOnFailure ==
    (FetchFailed /\ last.hadEntry /\ ~last.wasFresh)
        => /\ last.conf = "cachedStale"
           /\ last.value = last.oldPayload
           /\ last.value \notin {"null", "zero_filled"}

\* C2: a fetch never reports success with a zero-filled payload: every
\* failed fetch (timeout, network error, invalid response) returns a typed
\* error and every success carries the data the source returned.
C2_FailedFetchIsTypedError ==
    (last.op = "lookup" /\ last.fetched)
        => /\ last.outcome = "ok" => (last.resOk /\ last.resPayload = last.data)
           /\ last.outcome # "ok" => (~last.resOk /\ last.resError = last.outcome)

\* C3: when a fetch fails and the store holds no entry for the key, the
\* caller gets the static/heuristic fallback value (tagged staticFallback or
\* heuristic), the store invents no entry, and a value is still delivered.
C3_FallbackWhenNoEntry ==
    (FetchFailed /\ ~last.hadEntry)
        => /\ last.conf \in {"staticFallback", "heuristic"}
           /\ last.value \notin {"null", "zero_filled"}
           /\ ~cache[last.key].present

\* C8: an entry, once written, stays readable through any sequence of
\* lookups and TTL expiries: only explicit invalidation removes it, the
\* passing of time changes nothing of it, and a lookup that obtains no new
\* data serves the entry's own payload (fresh or stale).
C8_EntryRemovedOnlyByInvalidation ==
    [][/\ \A k \in Keys :
              cache[k].present
                  => \/ cache'[k].present
                     \/ (last'.op = "invalidate" /\ last'.key = k)
       /\ last'.op = "tick" => cache' = cache
       /\ (last'.op = "lookup" /\ cache[last'.key].present /\ ~last'.resOk)
              => /\ last'.value = cache[last'.key].payload
                 /\ last'.conf \in {"cachedFresh", "cachedStale"}
                 /\ cache'[last'.key] = cache[last'.key]]_vars

\* C8 witness: a charger entry past its 7-day TTL has just been served,
\* stale, after a failed fetch, and is still in the store.
C8_Witness ==
    /\ FetchFailed /\ last.key = "charger"
    /\ last.hadEntry /\ ~last.wasFresh
    /\ last.conf = "cachedStale"
    /\ IsStale(cache["charger"], "charger", now)

C6_TotalInRangeAndTierTotal ==
    /\ \A v \in 0..100 : Cardinality(BandsOf(v)) = 1
    /\ scored.done
           => /\ scored.total \in 0..100
              /\ scored.total = scored.pkd + scored.wealth + scored.age
                                    + scored.charger + scored.contact
              /\ scored.tier # "null"
              /\ \E b \in TierBands :
                     /\ b.tier = scored.tier
                     /\ b.lo <= scored.total /\ scored.total <= b.hi

\* C6 witness: a record scored exactly on a band boundary, 75 points, the
\* lowest score of tier AAA.
C6_Witness == scored.done /\ scored.total = 75 /\ scored.tier = "AAA"

(***************************************************************************)
(* Claims on the Batch Orchestrator.                                       *)
(***************************************************************************)
Sum2(f) == f["missing phone"] + f["missing email"]

Chunks(len, size) == (len + size - 1) \div size

StripTag(rows) ==
    [i \in 1..Len(rows) |->
        [id |-> rows[i].id, total |-> rows[i].total, tier |-> rows[i].tier]]

C7_RejectedRowsExcludedAndCounted ==
    LET seen == 1..(pos - 1)
        noPhone == {i \in seen : cfg.require_phone /\ ~input[i].phone}
        noEmail == {i \in seen : cfg.require_email /\ ~input[i].email} \ noPhone
    IN  bpc \in {"running", "done"}
            => /\ \A j \in 1..Len(out) : out[j].id \notin (noPhone \cup noEmail)
               /\ stats.rejected["missing phone"] = Cardinality(noPhone)
               /\ stats.rejected["missing email"] = Cardinality(noEmail)
               /\ stats.rows_in = stats.kept + Cardinality(noPhone \cup noEmail)

\* C7 witness: with the phone required, a finished run has filtered a row
\* without phone, counted it, and emitted another row.
C7_Witness ==
    /\ bpc = "done" /\ cfg.require_phone
    /\ \E i \in 1..Len(input) : ~input[i].phone
    /\ stats.rejected["missing phone"] >= 1
    /\ Len(out) >= 1

(***************************************************************************)
(* Claims on cancellation.                                                 *)
(***************************************************************************)
\* C11: when cancellation is requested during a run, the chunk in flight is
\* completed and its results are emitted, no later chunk is started, and
\* the run then terminates.
C11_CancelAtChunkBoundary ==
    /\ [][(bcancel /\ inflight /\ bpc = "running")
              => LET hi == ChunkEnd(pos, cfg.chunk_size, Len(input))
                 IN  \/ UNCHANGED <<pos, out, stats, bpc, inflight>>
                     \/ /\ ~inflight' /\ pos' = hi + 1
                        /\ stats'.rows_in = hi
                        /\ stats'.chunks = stats.chunks + 1
                        /\ \E k \in 0..(hi - pos + 1) :
                               out' = out \o Export(ProcessRows(input, pos, hi, cfg,
                                                                k, EmptyAcc).rows, cfg)]_vars
    /\ [][(bcancel /\ ~inflight)
              => /\ ~inflight'
                 /\ UNCHANGED <<pos, out, stats>>]_vars
    /\ [](bpc = "cancelled" => (bcancel /\ ~inflight /\ stats.rows_in = pos - 1))
    /\ (bcancel ~> bpc \in {"cancelled", "done"})

\* C11 witness: a run cancelled while its second chunk was in flight has
\* ended with both chunks processed and emitted, and rows left unread.
C11_Witness ==
    /\ bpc = "cancelled"
    /\ stats.chunks = 2
    /\ Len(out) = 2
    /\ pos <= Len(input)

(***************************************************************************)
(* Claims on the deep enrichment.                                          *)
(***************************************************************************)
InFlight == {l \in Leads : dtask[l] \in {"scheduled", "calling"}}

Calling == {l \in Leads : dtask[l] = "calling"}

BatchIndex(l) == (l - 1) \div BATCH_SIZE

\* C10: in the deep enrichment at most one batch is in flight at a time, a
\* batch holds at most 3 leads processed concurrently, so never more than 3
\* external calls are open at once, and a batch is only launched at the
\* start of the loop or out of the pause that follows the previous batch,
\* with nothing of that batch still in flight.
C10_OneSmallBatchThenPause ==
    /\ [](/\ Cardinality(InFlight) <= BATCH_SIZE
          /\ Cardinality(Calling) <= BATCH_SIZE
          /\ Cardinality(dbatch) <= BATCH_SIZE
          /\ InFlight \subseteq dbatch
          /\ \A a, b \in InFlight : BatchIndex(a) = BatchIndex(b)
          /\ InFlight # {} => dpc = "gather")
    /\ [][(InFlight' \ InFlight # {} /\ dbatch' # dbatch)
              => /\ dpc \in {"idle", "sleep"}
                 /\ InFlight = {}
                 /\ dbatch = {}]_vars
    /\ [][(dpc = "gather" /\ dpc' # "gather" /\ NextLead <= dn)
              => dpc' = "sleep"]_vars

\* C10 witness: the second batch has all three of its calls open, after a
\* first batch in which a call failed.
C10_Witness ==
    /\ dpc = "gather"
    /\ Calling = {4, 5, 6}
    /\ \E l \in 1..3 : dtask[l] = "fallback"

\* C15: every value handed to the enrichment carries exactly one of the
\* five confidence tags, and the tag tells how the value was obtained: live
\* only for the data of a successful fetch, cachedFresh only for an entry
\* within its TTL, cachedStale only for an expired entry, staticFallback
\* and heuristic only when the fetch failed and the store held nothing.
C15_TagMatchesProvenance ==
    last.op = "lookup"
        => /\ last.conf \in {"live", "cachedFresh", "cachedStale",
                             "staticFallback", "heuristic"}
           /\ last.conf = "live"
                  => (last.fetched /\ last.outcome = "ok" /\ last.value = last.data)
           /\ last.conf = "cachedFresh"
                  => (last.hadEntry /\ last.wasFresh /\ last.value = last.oldPayload)
           /\ last.conf = "cachedStale"
                  => (last.hadEntry /\ ~last.wasFresh /\ last.value = last.oldPayload)
           /\ last.conf \in {"staticFallback", "heuristic"}
                  => (FetchFailed /\ ~last.hadEntry)

(***************************************************************************)
(* Claims on the gateways' retries.                                        *)
(***************************************************************************)
\* C12: a gateway fetch tries again only after a transient network or
\* timeout error, never after an invalid (semantic) response and never
\* after a success; it makes a bounded number of attempts, at most 3
\* retries for the registry gateway, each retry preceded by its backoff
\* with growing delay, before it returns a failure.
C12_OnlyTransientErrorsRetriedBounded ==
    /\ \A i \in 1..(Len(rlog) - 1) : rlog[i] \in {"network", "timeout"}
    /\ Len(rlog) <= 1 + MAX_RETRIES
    /\ rgw # "cepik" => Len(rlog) <= 1
    /\ Len(rwaits) <= MAX_RETRIES
    /\ rpc \in {"attempt", "done"} /\ rlog # <<>> =>
           Len(rwaits) = Len(rlog) - (IF rpc = "done" THEN 1 ELSE 0)
    /\ rpc = "backoff" => Len(rwaits) = Len(rlog) - 1
    /\ \A i \in 1..(Len(rwaits) - 1) : rwaits[i] < rwaits[i + 1]
    /\ rres = "failed" =>
           /\ rpc = "done"
           /\ rlog[Len(rlog)] # "ok"

\* C12 witness: the registry fetch has failed after its 3 retries, each
\* after a network error and a backoff.
C12_Witness ==
    /\ rgw = "cepik" /\ rpc = "done" /\ rres = "failed"
    /\ rlog = <<"network", "network", "network", "network">>
    /\ rwaits = <<1, 2, 4>>

(***************************************************************************)
(* Claims on pagination.                                                   *)
(***************************************************************************)
\* C13: a paginated fetch accumulates pages until the source is exhausted
\* or the safety cap on the number of pages is reached, so a fetch that
\* has begun paging always ends, even when the source keeps returning full
\* pages.
C13_PagedFetchTerminates == (ppc = "paging") ~> (ppc = "done")

\* The accumulation itself: a finished query returns all the source holds.
PagedCountComplete ==
    \A b \in Brands :
        (ppc = "done" /\ pbrand = b)
            => pcounts[b] = [fetched |-> TRUE, count |-> psrc.total]

(***************************************************************************)
(* Claims on data integrity.                                               *)
(***************************************************************************)
\* C14: a count outside the plausible bounds (zero, or implausibly large)
\* is rejected as a data-integrity fault, handled as a failed fetch, and
\* never used as an enrichment value: every count that is accepted lies
\* within 1..MAX_REASONABLE_REGISTRATIONS.
C14_ImplausibleCountRejected ==
    \A r \in Regions :
        /\ idata[r].status = "ok"
               => idata[r].value \in 1..MAX_REASONABLE_REGISTRATIONS
        /\ (idata[r].status # "none"
                /\ idata[r].raw \notin 1..MAX_REASONABLE_REGISTRATIONS)
               => idata[r].status = "DataIntegrityError"

(***************************************************************************)
(* Claims on the cockpit.                                                  *)
(***************************************************************************)
\* C16: the hook handles every message type of the backend.  A fast
\* response, an analysis error and an error stop the analyzing spinner;
\* analysis_status and processing set it; an analysis_update and an
\* analysis_result are mapped to the frontend format, applied to the
\* analysis and stop the spinner.
C16_EveryBackendTypeHandled ==
    [][(flast'.op = "message" /\ currentSessionId = wsSession)
          => LET type == flast'.type
             IN  /\ type \in {"fast_response", "analysis_error", "error"}
                        => ~currentAnalysis'.isAnalyzing
                 /\ type \in {"analysis_update", "analysis_result"}
                        => /\ ~currentAnalysis'.isAnalyzing
                           /\ currentAnalysis'.data = wsSession
                           /\ sessions'[wsSession].analysisState.data = wsSession
                 /\ type = "processing" => currentAnalysis'.isAnalyzing
                 /\ type = "analysis_status"
                        => (currentAnalysis'.isAnalyzing
                                <=> flast'.status = "analyzing")]_vars

\* C19: when the user sends a chat message while the socket of the session
\* on display is not open, the chat does not stay in the sending/analyzing
\* state: isSending and isAnalyzing are cleared and a system message
\* (connectionFailure) is appended to the session.
C19_SendWithoutSocketIsReported ==
    [][(flast'.op = "handleSend" /\ ~SocketOpen)
          => LET sid == Displayed(sessions, currentSessionId)
                 msgs == sessions'[sid].messages
             IN  /\ ~isSending'
                 /\ ~currentAnalysis'.isAnalyzing
                 /\ msgs[Len(msgs)] = "system"]_vars

\* C20: an analysis_update received on the socket opened for session X
\* changes the stored analysisState and journey stage of no session other
\* than X, also when another session has been selected before the message
\* is processed.
C20_AnalysisUpdateStaysInItsSession ==
    [][(flast'.op = "message" /\ flast'.type = "analysis_update")
          => \A id \in SessionIds \ {wsSession} :
                 /\ sessions'[id].analysisState = sessions[id].analysisState
                 /\ sessions'[id].journeyStage = sessions[id].journeyStage]_vars

(***************************************************************************)
(* Claims on the Lead Refinery.                                            *)
(***************************************************************************)
\* C17: every 10-digit identifier whose final digit is the checksum of the
\* first nine is accepted by clean(), and every 10-digit identifier whose
\* final digit differs from it is rejected.
C17_NipAcceptedIffChecksumMatches ==
    (nres.done /\ Len(nres.nip) = 10)
        => LET n == nres.nip
               check == (6 * n[1] + 5 * n[2] + 7 * n[3] + 2 * n[4] + 3 * n[5]
                            + 4 * n[6] + 5 * n[7] + 6 * n[8] + 7 * n[9]) % 11
           IN  /\ n[10] = check => nres.accepted
               /\ n[10] # check => ~nres.accepted

\* C17 witness: the NIP 5261040828 has been accepted.
C17_Witness ==
    /\ nres.done /\ nres.accepted
    /\ nres.nip = <<5, 2, 6, 1, 0, 4, 0, 8, 2, 8>>

\* C18: phone normalization is idempotent: for every input with a valid
\* form, normalizing the normalized number returns it unchanged; the
\* canonical form is eleven digits beginning with 48.
C18_PhoneNormalizationIdempotent ==
    /\ (pres.step >= 1 /\ pres.first.valid)
           => /\ Len(pres.first.digits) = 11
              /\ SubSeq(pres.first.digits, 1, 2) = <<"4", "8">>
              /\ \A i \in 1..11 : IsDigit(pres.first.digits[i])
    /\ pres.step = 2 => pres.second = pres.first

\* C18 witness: a number written with the country code, spaces and a plus
\* sign, and beginning with 48 after the code, has been normalized twice.
C18_Witness ==
    /\ pres.step = 2
    /\ pres.raw = <<"+", "4", "8", " ", "4", "8", "1", " ", "4", "8", "4", " ", "8", "4", "8">>
    /\ pres.second.valid
    /\ pres.second.digits = <<"4", "8", "4", "8", "1", "4", "8", "4", "8", "4", "8">>

(***************************************************************************)
(* Claims on the cockpit's sessions.                                       *)
(***************************************************************************)
\* C21: a closed session is read-only: once a session has status closed,
\* no step changes its message list or its journey stage.
C21_ClosedSessionReadOnly ==
    [][\A id \in SessionIds :
           (sessions[id].exists /\ sessions[id].status = "closed")
               => /\ sessions'[id].messages = sessions[id].messages
                  /\ sessions'[id].journeyStage = sessions[id].journeyStage]_vars

\* C22: closing is final: a closed session stays closed and keeps the
\* outcome of its first close, whatever follows.
C22_ClosingIsFinal ==
    [][\A id \in SessionIds :
           (sessions[id].exists /\ sessions[id].status = "closed")
               => /\ sessions'[id].status = "closed"
                  /\ sessions'[id].outcome = sessions[id].outcome]_vars

\* C23: closeSession(id, outcome) changes session id only, and leaves the
\* selection and the view as they are when id is not the selected session.
C23_CloseTouchesOnlyItsSession ==
    [][flast'.op = "closeSession"
          => /\ \A id \in SessionIds \ {flast'.type} : sessions'[id] = sessions[id]
             /\ currentSessionId # flast'.type
                    => /\ currentSessionId' = currentSessionId
                       /\ currentView' = currentView]_vars

C24_NoReconnectAfterCleanup ==
    [][hlast'.op = "timer" => hlast'.sid = hsid]_vars

\* C27: every close with a code other than 1000 schedules a reconnect
\* attempt a fixed 3 seconds later, however many reconnects came before;
\* a close with code 1000 schedules none.
C27_AbnormalCloseSchedulesReconnect ==
    [][hlast'.op = "close"
          => LET k == hlast'.sock
                 scheduled == tpend' \ tpend
             IN  /\ hlast'.code # 1000
                        => /\ scheduled = {[id |-> k, sid |-> socks[k].sid, delay |-> 3000]}
                           /\ timerRef' = k
                 /\ hlast'.code = 1000 => (scheduled = {} /\ timerRef' = timerRef)]_vars

\* C27 witness: the session's third socket in a row was lost and a third
\* reconnect is scheduled.
C27_Witness ==
    /\ hlast.op = "close" /\ hlast.code = 1006 /\ hlast.sock = 3
    /\ \A k \in 1..3 : socks[k].sid = hsid /\ socks[k].st = "closed"
    /\ tpend = {[id |-> 3, sid |-> hsid, delay |-> 3000]}

\* C25: whenever isAnalyzing has been set to true it eventually becomes
\* false again, on every continuation: it never stays true forever.
C25_SpinnerEventuallyStops ==
    currentAnalysis.isAnalyzing ~> ~currentAnalysis.isAnalyzing

=============================================================================
